---- MODULE Spec2Model ----
(***************************************************************************)
(* Model of ksymtab.c: the registry of exported kernel symbols (struct     *)
(* ksymtab / struct ksym), the __ksymtab_strings splitter, the .symtab     *)
(* enumerator and the top-level ksymtab_read().                            *)
(*                                                                         *)
(* C strings are sequences of non-NUL bytes; bytes are small integers.     *)
(* A "const char *" argument that may be NULL is an optional string: NoStr *)
(* or Str(s).  Pointers to heap-allocated link strings are heap addresses, *)
(* NULL being 0.                                                           *)
(***************************************************************************)
EXTENDS Integers, Sequences, FiniteSets, TLC

VARIABLES
    ksyms,      \* every allocated struct ksym, by identity (index)
    tabs,       \* every allocated struct ksymtab: [hash, mark_count]
    heap,       \* storage of the strdup'ed link strings
    ret,        \* the last call made on the registry API and what it returned
    file,       \* the binary ksymtab_read is given
    pc,         \* position in ksymtab_read / parse_ksymtab_strings
    err,        \* the message of the fail() or exit(1) that ended the process
    os,         \* descriptors and libelf handles the process holds
    ke,         \* struct ksymtab_elf, NoHandle while there is none
    d_buf,      \* contents of the __ksymtab_strings section
    res,        \* the registry parse_ksymtab_strings / ksymtab_read returns
    symtab,     \* what the enumerator reads as the .symtab section
    calls       \* the invocations of the enumerator's handler, in order

regvars == <<ksyms, tabs, heap, ret>>
readvars == <<file, pc, err, os, ke, d_buf, res, symtab, calls>>
vars == <<ksyms, tabs, heap, ret, file, pc, err, os, ke, d_buf, res, symtab, calls>>

-----------------------------------------------------------------------------
(* Bounds of the model. *)
MaxSyms == 2        \* records allocated through the registry API
MaxBlob == 5        \* bytes of a __ksymtab_strings section
MaxSymtab == 3      \* records of a .symtab section, the first included

NUL == 0
NULL == 0

Names == {<<>>, <<1>>}                      \* "" and "a"
LinkTexts == {<<1>>}
Values == {0, 1}
Bytes == {NUL, 1, 2}

\* ELF symbol bindings (elf.h)
STB_GLOBAL == 1
STB_WEAK == 2

NoStr == [null |-> TRUE]
Str(s) == [null |-> FALSE, s |-> s]

-----------------------------------------------------------------------------
(* utils.h: allocation helpers. *)

HeapSize == MaxSyms + 1
FreeCell == [live |-> FALSE, s |-> <<>>]
EmptyHeap == [a \in 1..HeapSize |-> FreeCell]

\* malloc(): some address that is not in use (the lowest one)
malloc(h) == CHOOSE a \in 1..HeapSize :
                /\ ~h[a].live
                /\ \A b \in 1..HeapSize : ~h[b].live => a <= b

free(h, p) == IF p = NULL THEN h ELSE [h EXCEPT ![p] = FreeCell]

\* safe_strdup_or_null(): NULL for NULL, else a fresh copy of the text
safe_strdup_or_null(h, link) ==
    IF link.null THEN [heap |-> h, ptr |-> NULL]
    ELSE LET a == malloc(h)
         IN  [heap |-> [h EXCEPT ![a] = [live |-> TRUE, s |-> link.s]],
              ptr |-> a]

\* the string a "char *" points to
Deref(h, p) == IF p = NULL THEN NoStr ELSE Str(h[p].s)

\* safe_malloc(sizeof(struct ksym) + len + 1): zero-filled
ZeroedKsym == [key |-> <<>>, value |-> 0, mark |-> FALSE,
               link |-> NULL, ksymtab |-> NULL]

-----------------------------------------------------------------------------
(* hash.h: the associative container, kept as the list of its entries. *)

hash_new == <<>>

hash_add(h, key, val) == Append(h, [key |-> key, val |-> val])

\* the entry added last under the key, NULL when there is none
hash_find(h, key) ==
    LET hits == {i \in 1..Len(h) : h[i].key = key}
    IN  IF hits = {} THEN NULL
        ELSE h[CHOOSE i \in hits : \A j \in hits : j <= i].val

hash_get_count(h) == Len(h)

\* hash_iter_init/hash_iter_next: every entry once, in the container's order
HashIterOrders(h) ==
    {o \in [1..Len(h) -> 1..Len(h)] : \A i, j \in 1..Len(h) : o[i] = o[j] => i = j}

-----------------------------------------------------------------------------
(* ksymtab.h: accessors of struct ksym. *)

ksymtab_ksym_get_name(M, k) == M.ksyms[k].key
ksymtab_ksym_get_value(M, k) == M.ksyms[k].value
ksymtab_ksym_get_link(M, k) == M.ksyms[k].link
ksymtab_ksym_is_marked(M, k) == M.ksyms[k].mark

strlen(s) == Len(s)

-----------------------------------------------------------------------------
(* The registry operations, as functions of the memory M they act on. *)

Mem == [ksyms |-> ksyms, tabs |-> tabs, heap |-> heap]
EmptyMem == [ksyms |-> <<>>, tabs |-> <<>>, heap |-> EmptyHeap]

ksymtab_ksym_mark_nocheck(M, k) ==
    [M EXCEPT !.tabs[M.ksyms[k].ksymtab].mark_count = @ + 1,
              !.ksyms[k].mark = TRUE]

ksymtab_ksym_mark(M, k) ==
    LET M1 == IF ~M.ksyms[k].mark
              THEN [M EXCEPT !.tabs[M.ksyms[k].ksymtab].mark_count = @ + 1]
              ELSE M
    IN  [M1 EXCEPT !.ksyms[k].mark = TRUE]

ksymtab_ksym_set_link(M, k, link) ==
    LET h1 == IF M.ksyms[k].link # NULL THEN free(M.heap, M.ksyms[k].link)
              ELSE M.heap
        d  == safe_strdup_or_null(h1, link)
    IN  [M EXCEPT !.heap = d.heap, !.ksyms[k].link = d.ptr]

\* the new registry is the last of M.tabs
ksymtab_new(M) ==
    [M EXCEPT !.tabs = Append(@, [hash |-> hash_new, mark_count |-> 0])]

\* the new record is the last of M.ksyms
ksymtab_add_sym(M, t, str, len, value) ==
    LET k == Len(M.ksyms) + 1
        new == [ZeroedKsym EXCEPT !.key = SubSeq(str, 1, len),
                                  !.value = value,
                                  !.ksymtab = t]
    IN  [M EXCEPT !.ksyms = Append(@, new),
                  !.tabs[t].hash = hash_add(@, new.key, k)]

ksymtab_copy_sym_alias(M, t, k) ==
    LET M1 == ksymtab_add_sym(M, t, M.ksyms[k].key, strlen(M.ksyms[k].key),
                              M.ksyms[k].value)
    IN  [M1 EXCEPT !.ksyms[Len(M1.ksyms)].link = M.ksyms[k].link]

ksymtab_copy_sym(M, t, k) ==
    LET name  == ksymtab_ksym_get_name(M, k)
        value == ksymtab_ksym_get_value(M, k)
        link  == ksymtab_ksym_get_link(M, k)
        M1    == ksymtab_add_sym(M, t, name, strlen(name), value)
    IN  ksymtab_ksym_set_link(M1, Len(M1.ksyms), Deref(M1.heap, link))

ksymtab_find(M, t, name) ==
    IF name.null THEN NULL
    ELSE LET v == hash_find(M.tabs[t].hash, name.s)
         IN  IF v = NULL THEN NULL ELSE v

ksymtab_len(M, t) == hash_get_count(M.tabs[t].hash)

ksymtab_mark_count(M, t) == M.tabs[t].mark_count

unmarked_callback_all(M, k, out) ==
    Append(out, [ksym |-> k, name |-> ksymtab_ksym_get_name(M, k),
                 idx |-> ksymtab_ksym_get_value(M, k)])

\* out collects the calls of ctx->f
unmarked_callback(M, k, out) ==
    IF ksymtab_ksym_is_marked(M, k) THEN out
    ELSE Append(out, [ksym |-> k,
                      name |-> ksymtab_ksym_get_name(M, k),
                      idx |-> ksymtab_ksym_get_value(M, k)])

RECURSIVE ForEachFrom(_, _, _, _, _)
ForEachFrom(M, h, order, i, out) ==
    IF i > Len(h) THEN out
    ELSE ForEachFrom(M, h, order, i + 1,
                     unmarked_callback(M, h[order[i]].val, out))

\* ksymtab_for_each with f = unmarked_callback
ksymtab_for_each_unmarked(M, t, order) ==
    ForEachFrom(M, M.tabs[t].hash, order, 1, <<>>)

-----------------------------------------------------------------------------
(* The __ksymtab_strings splitter. *)

MALFORMED == "Mallformed __ksymtab_strings section"

\* the for loop of parse_ksymtab_strings: p = d_buf + size, oldp and size are
\* byte offsets into d_buf, and d_size is Len(buf)
RECURSIVE SplitLoop(_, _, _, _, _, _)
SplitLoopCountEmpty(M, t, buf, size, oldp, i) ==
    IF ~(size < Len(buf)) THEN M
    ELSE IF buf[size + 1] = NUL
         THEN LET len == size - oldp
              IN  IF len = 0
                  THEN SplitLoop(M, t, buf, size + 1, size + 1, i + 1)
                  ELSE SplitLoop(ksymtab_add_sym(M, t, SubSeq(buf, oldp + 1, Len(buf)),
                                                 len, i),
                                 t, buf, size + 1, size + 1, i + 1)
         ELSE SplitLoop(M, t, buf, size + 1, oldp, i)

SplitLoop(M, t, buf, size, oldp, i) ==
    IF ~(size < Len(buf)) THEN M
    ELSE IF buf[size + 1] = NUL
         THEN LET len == size - oldp
              IN  IF len = 0
                  THEN SplitLoop(M, t, buf, size + 1, size + 1, i)
                  ELSE SplitLoop(ksymtab_add_sym(M, t, SubSeq(buf, oldp + 1, Len(buf)),
                                                 len, i),
                                 t, buf, size + 1, size + 1, i + 1)
         ELSE SplitLoop(M, t, buf, size + 1, oldp, i)

parse_ksymtab_strings_nocheck(M, buf, d_size) ==
    LET M1 == ksymtab_new(M)
    IN  [failed |-> FALSE, M |-> SplitLoop(M1, Len(M1.tabs), buf, 0, 0, 0),
         res |-> Len(M1.tabs)]

\* failed: the fail() of line 403 was reached
parse_ksymtab_strings(M, buf, d_size) ==
    LET M1 == ksymtab_new(M)
        r  == Len(M1.tabs)
    IN  IF buf[d_size] # NUL
        THEN [failed |-> TRUE, M |-> M1, res |-> NULL]
        ELSE [failed |-> FALSE, M |-> SplitLoop(M1, r, buf, 0, 0, 0), res |-> r]

-----------------------------------------------------------------------------
(* The ELF reader. *)

\* what the file is to open(), elf_kind(), the magic check and gelf_getclass()
Kinds == {"unopenable", "not_elf", "bad_magic", "elf32", "elf64"}

\* a named section: not there, there as SHT_NOBITS, there with no data, or
\* there with data
Sections == {"absent", "nobits", "empty", "data"}

Files == [kind : Kinds, strings : Sections, symtab : Sections, strtab : Sections]

\* the one .strtab of the model, "\0a\0"
StrtabBytes == <<NUL, 1, NUL>>

\* what an uninitialised size_t may hold
GarbageSizes == {0, Len(StrtabBytes) + 1}

\* st_info bytes: LOCAL FUNC, GLOBAL FUNC, WEAK OBJECT, LOOS NOTYPE
Infos == {2, 18, 33, 160}
StNames == {0, 1, Len(StrtabBytes), Len(StrtabBytes) + 1}
SymRecs == [st_name : StNames, st_info : Infos, st_value : Values]
FirstRecs == {[st_name |-> 0, st_info |-> 0, st_value |-> 0],
              [st_name |-> 1, st_info |-> 18, st_value |-> 1]}
\* a .symtab: a first record and n more
Symtab(f, rest) == <<f>> \o rest

\* the __ksymtab_strings contents ksymtab_read is tried on: "a\0b\0" and "a"
ReadBlobs == {<<1, NUL, 2, NUL>>, <<1>>}

\* ksymtab_elf_get_section, by the state of the section asked for
ksymtab_elf_get_section(section) ==
    CASE section = "absent" -> [rc |-> 0 - 1, exit |-> FALSE, err |-> "none"]
      [] section = "nobits" -> [rc |-> 0, exit |-> TRUE, err |-> "section has type SHT_NOBITS"]
      [] section = "empty"  -> [rc |-> 0, exit |-> TRUE, err |-> "section empty!"]
      [] section = "data"   -> [rc |-> 0, exit |-> FALSE, err |-> "none"]

ELF64_ST_BIND(info) == info \div 16

Indeterminate == [null |-> FALSE, garbage |-> TRUE]

\* the C string at byte offset off of bytes
CStrAt(bytes, off) ==
    LET ends == {e \in (off + 1)..Len(bytes) : bytes[e] = NUL}
    IN  IF off >= Len(bytes) \/ ends = {} THEN Indeterminate
        ELSE Str(SubSeq(bytes, off + 1, (CHOOSE e \in ends : \A x \in ends : e <= x) - 1))

\* what the handler finds at ke->strtab + off
NameAt(k, off) ==
    IF k.strtab.valid THEN CStrAt(k.strtab.bytes, off) ELSE Indeterminate

\* the loop of ksymtab_elf_for_each_global_sym from record sym on; out is the
\* list of the calls of fn.  ke->strtab + sym->st_name is never NULL for a
\* non-zero st_name, so the fail() of line 216 is not reached.
RECURSIVE EnumLoop(_, _, _, _)
EnumLoopAnyBinding(k, tab, sym, out) ==
    IF ~(sym <= Len(tab)) THEN [calls |-> out, failed |-> FALSE]
    ELSE LET binding == ELF64_ST_BIND(tab[sym].st_info)
         IN  IF tab[sym].st_name = 0 THEN EnumLoop(k, tab, sym + 1, out)
             ELSE IF tab[sym].st_name > k.strtab_size
                  THEN [calls |-> out, failed |-> TRUE]
                  ELSE EnumLoop(k, tab, sym + 1,
                                Append(out, [rec |-> sym,
                                             off |-> tab[sym].st_name,
                                             name |-> NameAt(k, tab[sym].st_name),
                                             value |-> tab[sym].st_value,
                                             binding |-> binding]))

EnumLoop(k, tab, sym, out) ==
    IF ~(sym <= Len(tab)) THEN [calls |-> out, failed |-> FALSE]
    ELSE LET binding == ELF64_ST_BIND(tab[sym].st_info)
         IN  IF ~(binding = STB_GLOBAL \/ binding = STB_WEAK)
             THEN EnumLoop(k, tab, sym + 1, out)
             ELSE IF tab[sym].st_name = 0 THEN EnumLoop(k, tab, sym + 1, out)
             ELSE IF tab[sym].st_name > k.strtab_size
                  THEN [calls |-> out, failed |-> TRUE]
                  ELSE EnumLoop(k, tab, sym + 1,
                                Append(out, [rec |-> sym,
                                             off |-> tab[sym].st_name,
                                             name |-> NameAt(k, tab[sym].st_name),
                                             value |-> tab[sym].st_value,
                                             binding |-> binding]))

\* sym++ skips the first record
ksymtab_elf_for_each_global_sym(k, tab) == EnumLoop(k, tab, 2, <<>>)

-----------------------------------------------------------------------------
(* The registry API, one action per call. *)

SetMem(M) ==
    /\ ksyms' = M.ksyms
    /\ tabs' = M.tabs
    /\ heap' = M.heap

Insert ==
    /\ Len(ksyms) < MaxSyms
    /\ \E t \in 1..Len(tabs), str \in Names, value \in Values :
          /\ SetMem(ksymtab_add_sym(Mem, t, str, Len(str), value))
          /\ ret' = [op |-> "add_sym", tab |-> t, name |-> str,
                     value |-> value, ksym |-> Len(ksyms) + 1]

Copy ==
    /\ Len(ksyms) < MaxSyms
    /\ \E t \in 1..Len(tabs), k \in 1..Len(ksyms) :
          /\ SetMem(ksymtab_copy_sym(Mem, t, k))
          /\ ret' = [op |-> "copy_sym", tab |-> t, src |-> k,
                     ksym |-> Len(ksyms) + 1]

Mark ==
    \E k \in 1..Len(ksyms) :
        /\ SetMem(ksymtab_ksym_mark(Mem, k))
        /\ ret' = [op |-> "mark", ksym |-> k, was |-> ksyms[k].mark]

SetLink ==
    \E k \in 1..Len(ksyms), link \in {NoStr} \cup {Str(s) : s \in LinkTexts} :
        /\ SetMem(ksymtab_ksym_set_link(Mem, k, link))
        /\ ret' = [op |-> "set_link", ksym |-> k, link |-> link]

Find ==
    \E t \in 1..Len(tabs), name \in {NoStr} \cup {Str(s) : s \in Names} :
        /\ ret' = [op |-> "find", tab |-> t, name |-> name,
                   ksym |-> ksymtab_find(Mem, t, name)]
        /\ UNCHANGED <<ksyms, tabs, heap>>

ForEachUnmarked ==
    \E t \in 1..Len(tabs) :
        \E order \in HashIterOrders(tabs[t].hash) :
            /\ ret' = [op |-> "for_each_unmarked", tab |-> t,
                       calls |-> ksymtab_for_each_unmarked(Mem, t, order)]
            /\ UNCHANGED <<ksyms, tabs, heap>>

-----------------------------------------------------------------------------
(* ksymtab_read, one action per call it makes. *)

RANGE == "Symbol name index out of range"

NoHandle == [open |-> FALSE]

Opened == [fd |-> os.fd + 1, elf |-> os.elf + 1]

\* elf = ksymtab_elf_open(filename); if (elf == NULL) return NULL;
Open ==
    /\ pc = "open"
    /\ UNCHANGED <<ksyms, tabs, heap, ret, file, d_buf, res, symtab, calls>>
    /\ \/ /\ file.kind = "unopenable"
          /\ pc' = "exit"
          /\ err' = "Failed to open file"
          /\ UNCHANGED <<os, ke>>
       \/ /\ file.kind \in {"not_elf", "bad_magic"}
          /\ os' = Opened
          /\ pc' = "return"
          /\ UNCHANGED <<err, ke>>
       \/ /\ file.kind = "elf32"
          /\ os' = Opened
          /\ pc' = "exit"
          /\ err' = "Unsupported elf class"
          /\ UNCHANGED ke
       \/ /\ file.kind = "elf64"
          /\ os' = Opened
          /\ LET g == ksymtab_elf_get_section(file.strtab)
             IN  IF g.exit
                 THEN /\ pc' = "exit"
                      /\ err' = g.err
                      /\ ke' = [open |-> TRUE, strtab |-> [valid |-> FALSE],
                                strtab_size |-> 0]
                 ELSE /\ pc' = "get_strings"
                      /\ UNCHANGED err
                      /\ IF g.rc < 0
                         THEN \E n \in GarbageSizes :
                                 ke' = [open |-> TRUE, strtab |-> [valid |-> FALSE],
                                        strtab_size |-> n]
                         ELSE ke' = [open |-> TRUE,
                                     strtab |-> [valid |-> TRUE, bytes |-> StrtabBytes],
                                     strtab_size |-> Len(StrtabBytes)]

\* if (ksymtab_elf_get_section(elf, KSYMTAB_STRINGS, &data, &size) < 0) goto done;
GetStrings ==
    /\ pc = "get_strings"
    /\ UNCHANGED <<ksyms, tabs, heap, ret, file, os, ke, res, symtab, calls>>
    /\ LET g == ksymtab_elf_get_section(file.strings)
       IN  IF g.exit
           THEN pc' = "exit" /\ err' = g.err /\ UNCHANGED d_buf
           ELSE IF g.rc < 0
                THEN pc' = "close" /\ UNCHANGED <<err, d_buf>>
                ELSE /\ pc' = "parse"
                     /\ d_buf' \in ReadBlobs
                     /\ UNCHANGED err

\* res = parse_ksymtab_strings(data, size);  The message of the fail() prints
\* d_buf as a C string, which runs past the section when it holds no NUL.
Parse ==
    /\ pc = "parse"
    /\ UNCHANGED <<ret, file, os, ke, d_buf, symtab, calls>>
    /\ LET r == parse_ksymtab_strings(Mem, d_buf, Len(d_buf))
       IN  /\ SetMem(r.M)
           /\ res' = r.res
           /\ IF r.failed
              THEN /\ err' = MALFORMED
                   /\ pc' \in {"exit"} \cup
                         (IF \A i \in 1..Len(d_buf) : d_buf[i] # NUL
                          THEN {"crash"} ELSE {})
              ELSE pc' = "enum" /\ UNCHANGED err

\* ksymtab_elf_for_each_global_sym(elf, symtab_handler, NULL);  The result of
\* ksymtab_elf_get_section is not looked at: without .symtab, data and size
\* are whatever the stack held.  symtab_handler prints the name it is given.
Enumerate ==
    /\ pc = "enum"
    /\ UNCHANGED <<ksyms, tabs, heap, ret, file, os, ke, d_buf, res>>
    /\ LET g == ksymtab_elf_get_section(file.symtab)
       IN  IF g.exit
           THEN pc' = "exit" /\ err' = g.err /\ UNCHANGED <<symtab, calls>>
           ELSE \E n \in 0..(MaxSymtab - 1) :
                \E f \in FirstRecs, rest \in [1..n -> SymRecs] :
                  LET tab == Symtab(f, rest)
                      e == ksymtab_elf_for_each_global_sym(ke, tab)
                      bad == {j \in 1..Len(e.calls) : e.calls[j].name = Indeterminate}
                  IN  \/ /\ symtab' = tab
                         /\ calls' = e.calls
                         /\ IF e.failed THEN pc' = "exit" /\ err' = RANGE
                            ELSE pc' = "close" /\ UNCHANGED err
                      \/ /\ \E j \in bad : calls' = SubSeq(e.calls, 1, j)
                         /\ symtab' = tab
                         /\ pc' = "crash"
                         /\ UNCHANGED err
                      \/ /\ g.rc < 0
                         /\ symtab' = <<>>
                         /\ calls' = <<>>
                         /\ pc' = "crash"
                         /\ UNCHANGED err

\* done: ksymtab_elf_close(elf); return (res);
Close ==
    /\ pc = "close"
    /\ UNCHANGED <<ksyms, tabs, heap, ret, file, err, d_buf, res, symtab, calls>>
    /\ os' = [fd |-> os.fd - 1, elf |-> os.elf - 1]
    /\ ke' = NoHandle
    /\ pc' = "return"

-----------------------------------------------------------------------------
(* The specifications. *)

\* the variables of ksymtab_read, while only the registry API is called
ReadIdle ==
    /\ file = [kind |-> "none"]
    /\ pc = "idle"
    /\ err = "none"
    /\ os = [fd |-> 0, elf |-> 0]
    /\ ke = NoHandle
    /\ d_buf = <<>>
    /\ res = NULL
    /\ symtab = <<>>
    /\ calls = <<>>

\* two registries made by ksymtab_new
RegInit ==
    /\ ksyms = <<>>
    /\ tabs = ksymtab_new(ksymtab_new(EmptyMem)).tabs
    /\ heap = EmptyHeap
    /\ ret = [op |-> "new", tab |-> 2]
    /\ ReadIdle

RegNext ==
    \/ Insert /\ UNCHANGED readvars
    \/ Copy /\ UNCHANGED readvars
    \/ Mark /\ UNCHANGED readvars
    \/ SetLink /\ UNCHANGED readvars

SpecReg == RegInit /\ [][RegNext]_vars

FindNext ==
    \/ Insert /\ UNCHANGED readvars
    \/ Copy /\ UNCHANGED readvars
    \/ Mark /\ UNCHANGED readvars
    \/ SetLink /\ UNCHANGED readvars
    \/ Find /\ UNCHANGED readvars

SpecFind == RegInit /\ [][FindNext]_vars

IterNext ==
    \/ Insert /\ UNCHANGED readvars
    \/ Mark /\ UNCHANGED readvars
    \/ ForEachUnmarked /\ UNCHANGED readvars

SpecIter == RegInit /\ [][IterNext]_vars

Blobs == UNION {[1..n -> Bytes] : n \in 1..MaxBlob}

\* parse_ksymtab_strings on any section contents
SplitInit ==
    /\ ksyms = <<>>
    /\ tabs = <<>>
    /\ heap = EmptyHeap
    /\ ret = [op |-> "none"]
    /\ file = [kind |-> "none"]
    /\ pc = "parse"
    /\ err = "none"
    /\ os = [fd |-> 0, elf |-> 0]
    /\ ke = NoHandle
    /\ d_buf \in Blobs
    /\ res = NULL
    /\ symtab = <<>>
    /\ calls = <<>>

SplitNext == Parse

SpecSplit == SplitInit /\ [][SplitNext]_vars

\* ksymtab_read on any file
ReadInit ==
    /\ ksyms = <<>>
    /\ tabs = <<>>
    /\ heap = EmptyHeap
    /\ ret = [op |-> "none"]
    /\ file \in Files
    /\ pc = "open"
    /\ err = "none"
    /\ os = [fd |-> 0, elf |-> 0]
    /\ ke = NoHandle
    /\ d_buf = <<>>
    /\ res = NULL
    /\ symtab = <<>>
    /\ calls = <<>>

ReadNext ==
    \/ Open
    \/ GetStrings
    \/ Parse
    \/ Enumerate
    \/ Close

SpecRead == ReadInit /\ [][ReadNext]_vars

-----------------------------------------------------------------------------
(* Properties of the registry. *)

\* the records a registry holds: those its container has an entry for
HeldIn(M, t) == {M.tabs[t].hash[i].val : i \in 1..Len(M.tabs[t].hash)}
Held(t) == HeldIn(Mem, t)

MarkedIn(t) == {k \in Held(t) : ksyms[k].mark}

\* the link text of a record as a reader of ksym->link finds it
LinkOfIn(M, k) ==
    IF M.ksyms[k].link = NULL THEN NoStr
    ELSE IF ~M.heap[M.ksyms[k].link].live THEN [null |-> FALSE, dangling |-> TRUE]
    ELSE Str(M.heap[M.ksyms[k].link].s)
LinkOf(k) == LinkOfIn(Mem, k)

MarkCountExact ==
    \A t \in 1..Len(tabs) : ksymtab_mark_count(Mem, t) = Cardinality(MarkedIn(t))

MarkCountStep ==
    /\ \A t \in 1..Len(tabs) : tabs'[t].mark_count >= tabs[t].mark_count
    /\ (ret'.op = "mark" /\ ret'.was) => UNCHANGED <<ksyms, tabs, heap>>

NoSharedLink ==
    \A k \in 1..Len(ksyms) :
        ksyms[k].link # NULL =>
            /\ heap[ksyms[k].link].live
            /\ \A j \in 1..Len(ksyms) : j # k => ksyms[j].link # ksyms[k].link

CopyStep ==
    ret'.op = "copy_sym" =>
        LET s == ret'.src
            n == ret'.ksym
            t == ret'.tab
        IN  /\ Len(ksyms') = Len(ksyms) + 1
            /\ n = Len(ksyms')
            /\ ksyms'[n].key = ksyms[s].key
            /\ ksyms'[n].value = ksyms[s].value
            /\ LinkOfIn(Mem', n) = LinkOf(s)
            /\ ksyms'[n].mark = FALSE
            /\ ksyms'[n].ksymtab = t
            /\ n \in HeldIn(Mem', t)
            /\ \A k \in 1..Len(ksyms) : ksyms'[k] = ksyms[k] /\ LinkOfIn(Mem', k) = LinkOf(k)
            /\ \A u \in 1..Len(tabs) : tabs'[u].mark_count = tabs[u].mark_count

OthersKeptStep ==
    ret'.op \in {"set_link", "mark"} =>
        \A k \in 1..Len(ksyms) :
            k # ret'.ksym => ksyms'[k] = ksyms[k] /\ LinkOfIn(Mem', k) = LinkOf(k)

\* C10: duplicate makes a new, unmarked record of the target registry with the
\* name, value and link text of the source, changes neither the source nor any
\* mark-count, and gives the copy its own link storage: no two records share a
\* link string, and set_link or mark on one record changes no other record.
C10_CopyIndependent == [](NoSharedLink) /\ [][CopyStep /\ OthersKeptStep]_vars

\* a marked record with a link has been duplicated into the other registry
C10_Witness ==
    /\ ret.op = "copy_sym"
    /\ ksyms[ret.src].mark
    /\ ksyms[ret.src].link # NULL
    /\ ksyms[ret.src].ksymtab # ret.tab
    /\ LinkOf(ret.ksym) = LinkOf(ret.src)

\* C7: find returns no record for an absent or empty name, and for any other
\* name returns a record exactly when the registry holds one of that name.
C7_FindContract ==
    ret.op = "find" =>
        IF ret.name.null \/ ret.name.s = <<>>
        THEN ret.ksym = NULL
        ELSE /\ ret.ksym # NULL <=>
                    \E k \in Held(ret.tab) : ksyms[k].key = ret.name.s
             /\ ret.ksym # NULL =>
                    ret.ksym \in Held(ret.tab) /\ ksyms[ret.ksym].key = ret.name.s

UnmarkedVisited ==
    ret.op = "for_each_unmarked" =>
        LET c == ret.calls
            U == Held(ret.tab) \ MarkedIn(ret.tab)
        IN  /\ \A k \in U : Cardinality({i \in 1..Len(c) : c[i].ksym = k}) = 1
            /\ \A i \in 1..Len(c) :
                  /\ c[i].ksym \in U
                  /\ c[i].name = ksyms[c[i].ksym].key
                  /\ c[i].idx = ksyms[c[i].ksym].value

TraversalStep ==
    ret'.op = "for_each_unmarked" => UNCHANGED <<ksyms, tabs, heap>>

\* C9: for_each_unmarked calls the visitor exactly once for every unmarked
\* record of the registry and for no marked one, with the record's name and
\* value, whatever the order of the container, and changes no mark flag and
\* no mark-count.
C9_UnmarkedOnly == [](UnmarkedVisited) /\ [][TraversalStep]_vars

\* a registry with a marked and an unmarked record has been traversed
C9_Witness ==
    /\ ret.op = "for_each_unmarked"
    /\ MarkedIn(ret.tab) # {}
    /\ Len(ret.calls) > 0

-----------------------------------------------------------------------------
(* Properties of the splitter. *)

\* where the maximal runs of non-NUL bytes of buf start
SpanStarts(buf) ==
    {a \in 1..Len(buf) : buf[a] # NUL /\ (a = 1 \/ buf[a - 1] = NUL)}

\* the maximal run of non-NUL bytes that starts at a
SpanAt(buf, a) ==
    SubSeq(buf, a, CHOOSE e \in a..Len(buf) :
                      /\ \A x \in a..e : buf[x] # NUL
                      /\ e = Len(buf) \/ buf[e + 1] = NUL)

\* the k-th of them from the left, k = 1, 2, ...
KthSpan(buf, k) ==
    SpanAt(buf, CHOOSE a \in SpanStarts(buf) :
                    Cardinality({x \in SpanStarts(buf) : x < a}) = k - 1)

\* C2: of a NUL-terminated section the splitter inserts exactly the maximal
\* non-empty NUL-delimited spans, left to right, the k-th one (from 0) with
\* value k; empty spans insert nothing and take no index.
C2_SplitExact ==
    (pc # "parse" /\ d_buf[Len(d_buf)] = NUL) =>
        /\ pc = "enum"
        /\ res # NULL
        /\ LET h == tabs[res].hash
               n == Cardinality(SpanStarts(d_buf))
           IN  /\ Len(h) = n
               /\ Len(ksyms) = n
               /\ \A k \in 1..n :
                     /\ h[k].key = KthSpan(d_buf, k)
                     /\ h[k].val = k
                     /\ ksyms[k].key = KthSpan(d_buf, k)
                     /\ ksyms[k].value = k - 1
                     /\ ksyms[k].ksymtab = res

\* two names with an empty span between them have been split
C2_Witness ==
    /\ pc = "enum"
    /\ \E i \in 2..(Len(d_buf) - 2) :
          d_buf[i - 1] # NUL /\ d_buf[i] = NUL /\ d_buf[i + 1] = NUL
    /\ Len(ksyms) = 2
    /\ ksyms[2].value = 1

\* C5: a section whose last byte is not NUL ends in the fail() for a malformed
\* section, and no registry, with or without records, is returned.
C5_MalformedFails ==
    (pc # "parse" /\ d_buf[Len(d_buf)] # NUL) =>
        /\ pc \in {"exit", "crash"}
        /\ err = MALFORMED
        /\ res = NULL
        /\ ksyms = <<>>

\* a section with a complete name and an unterminated tail has been refused
C5_Witness ==
    /\ pc = "exit"
    /\ err = MALFORMED
    /\ Len(d_buf) >= 3
    /\ d_buf[1] # NUL
    /\ d_buf[2] = NUL
    /\ d_buf[Len(d_buf)] # NUL

-----------------------------------------------------------------------------
(* Properties of ksymtab_read. *)

\* the enumerator's loop has run, over symtab
Enumerated == symtab # <<>>

\* record r is one the enumerator keeps
Kept(tab, r) ==
    /\ r >= 2
    /\ ELF64_ST_BIND(tab[r].st_info) \in {STB_GLOBAL, STB_WEAK}
    /\ tab[r].st_name # 0

KeptRecs(tab) == {r \in 1..Len(tab) : Kept(tab, r)}

\* the name index of record r is an offset inside .strtab
ValidName(tab, r) ==
    file.strtab = "data" /\ tab[r].st_name < Len(StrtabBytes)

\* the kept records before which every kept record, itself included, has a
\* valid name
ValidPrefix(tab) ==
    {r \in KeptRecs(tab) : \A q \in KeptRecs(tab) : q <= r => ValidName(tab, q)}

CalledRecs == {calls[j].rec : j \in 1..Len(calls)}

\* C3: with .symtab and .strtab there, a kept record whose name index is not
\* below the length of .strtab ends the enumeration with the out-of-range
\* failure before the handler is called for it, and every name handed to the
\* handler starts below that length.
C3_NameInRange ==
    (Enumerated /\ file.strtab = "data" /\ file.symtab = "data") =>
        /\ \A j \in 1..Len(calls) : calls[j].off < Len(StrtabBytes)
        /\ (\E r \in KeptRecs(symtab) : ~ValidName(symtab, r)) =>
                pc = "exit" /\ err = RANGE /\ CalledRecs = ValidPrefix(symtab)

\* C4: when ksymtab_read returns, the descriptor and the libelf handle it
\* opened are released and the handle is gone; while a section is read the
\* handle is open.
C4_ReleasedOnReturn ==
    /\ pc = "return" => os.fd = 0 /\ os.elf = 0 /\ ~ke.open
    /\ pc \in {"parse", "enum"} => os.fd = 1 /\ os.elf = 1 /\ ke.open

\* the calls a complete enumeration of tab makes
ExpectedCall(tab, r) ==
    [rec |-> r, off |-> tab[r].st_name,
     name |-> CStrAt(StrtabBytes, tab[r].st_name),
     value |-> tab[r].st_value,
     binding |-> ELF64_ST_BIND(tab[r].st_info)]

\* C6 as stated: the handler is called exactly once, in table order, for
\* every kept record of the table (here: with both sections there, no name
\* index equal to the length of .strtab, and the handler returning).
C6_EveryKeptOnce ==
    (/\ Enumerated
     /\ file.strtab = "data"
     /\ file.symtab = "data"
     /\ pc # "crash"
     /\ \A r \in KeptRecs(symtab) : symtab[r].st_name # Len(StrtabBytes)) =>
        /\ Len(calls) = Cardinality(KeptRecs(symtab))
        /\ \A j \in 1..Len(calls) :
              /\ calls[j] = ExpectedCall(symtab, calls[j].rec)
              /\ Cardinality({r \in KeptRecs(symtab) : r < calls[j].rec}) = j - 1

\* C6, amended: the handler is called only for kept records, in table order,
\* at most once each, with the record's name offset, value and binding;
\* exactly once, with the resolved name, for every kept record up to which all
\* kept records have a name index below the length of .strtab; and a kept
\* record whose name index is above that length, all kept records before it
\* being valid, ends the enumeration with the out-of-range failure.
C6_KeptPrefixOnce ==
    Enumerated =>
        /\ \A j \in 1..Len(calls) :
              /\ Kept(symtab, calls[j].rec)
              /\ calls[j].off = symtab[calls[j].rec].st_name
              /\ calls[j].value = symtab[calls[j].rec].st_value
              /\ calls[j].binding = ELF64_ST_BIND(symtab[calls[j].rec].st_info)
              /\ \A i \in 1..(j - 1) : calls[i].rec < calls[j].rec
        /\ \A r \in ValidPrefix(symtab) :
              \E j \in 1..Len(calls) : calls[j] = ExpectedCall(symtab, r)
        /\ \A r \in KeptRecs(symtab) :
              (/\ file.strtab = "data"
               /\ symtab[r].st_name > Len(StrtabBytes)
               /\ \A q \in KeptRecs(symtab) : q < r => ValidName(symtab, q)) =>
                  pc = "exit" /\ err = RANGE /\ CalledRecs = ValidPrefix(symtab)

\* a weak symbol has been handed over and the global one after it, with a
\* name index above the length of .strtab, has ended the enumeration
C6_Witness ==
    /\ Enumerated
    /\ pc = "exit"
    /\ err = RANGE
    /\ Len(calls) = 1
    /\ calls[1].binding = STB_WEAK
    /\ calls[1].name = Str(<<1>>)
    /\ ELF64_ST_BIND(symtab[Len(symtab)].st_info) = STB_GLOBAL

\* C8: with __ksymtab_strings there but .strtab or .symtab not, ksymtab_read
\* does not get past the enumeration and the handler is never called.
C8_UnsetIsFatal ==
    (/\ file.kind = "elf64"
     /\ file.strings = "data"
     /\ file.strtab = "absent" \/ file.symtab = "absent") =>
        /\ calls = <<>>
        /\ pc \notin {"close", "return"}

====
